---- MODULE Spec2Model ----
(***************************************************************************)
(* Model of the kubeclaw gateway's run concurrency: the single-flight      *)
(* streaming Agent (agent.js), the SessionManager (sessions.js) and the    *)
(* RpcHandler (rpc.js); and of the gateway's admission of connections and  *)
(* frames (gateway.js): the token check, the size cap and the rate limit.  *)
(*                                                                         *)
(* JavaScript runs every callback to completion, so one action is one      *)
(* event-loop task: the synchronous code between two awaits.  The awaits   *)
(* of Agent.stream (client.chat() and every step of `for await`) are the   *)
(* only suspension points; the backend resumes a suspended call with a     *)
(* part, with the end of the stream, or with a failure.                    *)
(*                                                                         *)
(* Text is a sequence of one-character strings, so that concatenation is   *)
(* \o and the empty string is << >>.                                       *)
(***************************************************************************)
EXTENDS Integers, Sequences, FiniteSets, TLC

VARIABLES
    agents,     \* Agent objects: [history, busy, abortController]
    calls,      \* Agent.stream invocations, in call order, with their locals
    cbLog,      \* callbacks received by a caller that uses the Agent directly
    registry,   \* SessionManager._sessions: key -> Session object (0: absent)
    sessions,   \* Session objects: [key, agent, history, currentRunId]
    connected,  \* RpcHandler._connected
    seq,        \* RpcHandler._seq
    sent,       \* frames handed to RpcHandler._send, in order
    nextId,     \* the id the client gives its next request
    now,        \* Date.now(), in ms
    listed,     \* the call and the result of a SessionManager.list that has
                \* just returned (NotListed once the caller has moved on)
    gatewayToken, \* GATEWAY_TOKEN of the gateway ("": none configured)
    clients,    \* the gateway's WebSocket connections, in order of arrival
    returned    \* the call and the result of a getOrCreate, get, delete or
                \* clear of the SessionManager that has just returned

vars == <<agents, calls, cbLog, registry, sessions, connected, seq, sent, nextId,
          now, listed, gatewayToken, clients, returned>>
rpcVars == <<registry, sessions, connected, seq, sent, nextId>>
\* the clock, and the state of the processes around the RpcHandler
gwVars == <<now, listed, gatewayToken, clients, returned>>

----------------------------------------------------------------------------
(* Program constants and bounds of the model *)

MAX_HISTORY == 50
\* the gateway's admission limits (unnamed/part_002)
MAX_MESSAGE_SIZE == 65536
RATE_LIMIT_MAX == 20
RATE_LIMIT_WINDOW == 60000
\* the period of the gateway's ping timer, in ms
HEARTBEAT_INTERVAL == 30000
\* MAX_HISTORY of the Session's display log
MAX_SESSION_HISTORY == 200

\* stream calls made in one behaviour
MaxCalls == 2
\* parts the backend yields in one response stream
MaxChunks == 2

\* requests dispatched on the connection in one behaviour
MaxReqs == 3
\* Session objects created in one behaviour
MaxSessions == 2

\* messages pushed onto one Session's log by a caller that drives the
\* SessionManager directly
MaxMsgs == 1

\* timestamps one connection has recorded when the model stops sending it
\* frames that pass the size check
MaxFrames == 22
\* WebSocket connections made in one behaviour
MaxConns == 1
\* heartbeat ticks in one behaviour
MaxBeats == 3
\* messages pushed onto a Session's log that starts at its cap
MaxPushes == 3

\* session keys the client uses
Keys == {"main", "k"}

\* message.content of the parts the backend yields ("" is a part without text)
Chunks == {<< >>, <<"x">>}
\* user inputs
Contents == {<<"q">>}
\* the `limit` a chat.history request gives (0: none given)
Limits == {0, 1}

----------------------------------------------------------------------------
(* Array helpers *)

\* Array.prototype.slice(-n)
SliceLast(s, n) == IF Len(s) > n THEN SubSeq(s, Len(s) - n + 1, Len(s)) ELSE s

\* Array.prototype.pop(): a no-op on an empty array
Pop(s) == IF s = << >> THEN << >> ELSE SubSeq(s, 1, Len(s) - 1)

----------------------------------------------------------------------------
(* Agent (unnamed/part_001) *)

\* A turn of Agent._history.  `call` is the index in `calls` of the stream
\* call that pushed the turn (not a field of the program's object: it tells
\* equal-looking turns apart); turns that predate the behaviour carry -i.
Turn(role, content, call) == [role |-> role, content |-> content, call |-> call]

NewAgent == [history |-> << >>, busy |-> FALSE, abortController |-> "null"]

\* the busy check left out
StreamRejected_never(ag) == FALSE

\* `if (this._busy)`
StreamRejected(ag) == ag.busy

\* busy = true; a fresh AbortController; history.push(user turn)
StreamBegin(ag, c, content) ==
    [ag EXCEPT !.busy = TRUE,
               !.abortController = "live",
               !.history = Append(@, Turn("user", content, c))]

\* the abort checks left out
AbortSignalled_never(ag) == FALSE

\* this._abortController.signal.aborted
AbortSignalled(ag) == ag.abortController = "aborted"

\* `if (history.length > MAX_HISTORY) history = history.slice(-MAX_HISTORY)`
CapHistory(h) == IF Len(h) > MAX_HISTORY THEN SliceLast(h, MAX_HISTORY) ELSE h

\* history.push(assistant turn) and the cap, on normal exhaustion
PushAssistant(ag, c, text) ==
    [ag EXCEPT !.history = CapHistory(Append(@, Turn("assistant", text, c)))]

\* the pop left out
Rollback_none(ag) == ag

\* history.pop() of the abort and error paths
Rollback(ag) == [ag EXCEPT !.history = Pop(@)]

\* a `finally` block that clears the busy flag only
StreamFinally_keepToken(ag) == [ag EXCEPT !.busy = FALSE]

\* the `finally` block
StreamFinally(ag) == [ag EXCEPT !.busy = FALSE, !.abortController = "null"]

\* abort() without the `if (this._abortController)` check
AgentAbort_always(ag) == [ag EXCEPT !.abortController = "aborted"]

\* Agent.abort()
AgentAbort(ag) ==
    IF ag.abortController # "null" THEN [ag EXCEPT !.abortController = "aborted"]
    ELSE ag

\* Agent.reset()
AgentReset(ag) == [ag EXCEPT !.history = << >>]

\* One invocation of Agent.stream with its locals and, for a call made by
\* RpcHandler._streamChat, the closure (session, runId, accumulated).
\* pc: "streaming" (suspended at an await), or how the call returned:
\* "busy", "done", "error", "aborted".  parts counts the parts consumed.
\* h0 and resets are history variables: the Agent's history when the call
\* was made, and whether reset() ran while the call was suspended.
NewCall(a, content, pc, run, s, h0) ==
    [agent |-> a, content |-> content, assistantText |-> << >>, pc |-> pc,
     parts |-> 0, run |-> run, session |-> s, accumulated |-> << >>,
     h0 |-> h0, resets |-> FALSE]

\* the call returns: its locals and its closure are gone
Return(call, how) ==
    [call EXCEPT !.pc = how, !.assistantText = << >>, !.accumulated = << >>,
                 !.parts = 0, !.h0 = << >>, !.resets = FALSE]

Streaming(c) == calls[c].pc = "streaming"

\* the stream calls suspended on agent a
InProgress(a) == {c \in 1..Len(calls) : calls[c].agent = a /\ Streaming(c)}

----------------------------------------------------------------------------
(* Session (unnamed/part_000) *)

\* a message of a Session's display log (its id and ts are left out)
Msg(role, text) == [role |-> role, text |-> text]

\* new Session(key, agent); currentRunId 0 is null
NewSession(key, a) ==
    [key |-> key, agent |-> a, history |-> << >>, currentRunId |-> 0,
     createdAt |-> now, lastActiveAt |-> now]

\* a pushMessage that never cuts the log
pushMessage_uncapped(sess, role, text) ==
    [sess EXCEPT !.history = Append(@, Msg(role, text)), !.lastActiveAt = now]

\* Session.pushMessage
pushMessage(sess, role, text) ==
    [sess EXCEPT !.history = SliceLast(Append(@, Msg(role, text)), MAX_SESSION_HISTORY),
                 !.lastActiveAt = now]

----------------------------------------------------------------------------
(* SessionManager.list (unnamed/part_000) *)

\* a field of list()'s filter: not given, or given with a value
NotGiven == [given |-> FALSE, value |-> 0]
Given(n) == [given |-> TRUE, value |-> n]

\* a test that takes every given value, 0 included
Truthy_given(field) == field.given

\* `if (activeMinutes)`, `if (limit)`: JavaScript truthiness of the field
Truthy(field) == field.given /\ field.value # 0

\* Session.toJSON
toJSON(sess) ==
    [key |-> sess.key, createdAt |-> sess.createdAt,
     lastActiveAt |-> sess.lastActiveAt, messageCount |-> Len(sess.history)]

\* Session object s is a value of the Map
IsValue(s) == \E k \in Keys : registry[k] = s

\* `[...this._sessions.values()]`: the registered Sessions in insertion
\* order, which is the order of their creation
Values ==
    LET idx == SelectSeq([i \in 1..Len(sessions) |-> i], IsValue)
    IN [i \in 1..Len(idx) |-> sessions[idx[i]]]

RECURSIVE InsertByLastActive(_, _)
\* x put behind the elements of a sorted list that do not have to follow it
InsertByLastActive(x, sorted) ==
    IF sorted = << >> THEN <<x>>
    ELSE IF Head(sorted).lastActiveAt >= x.lastActiveAt
         THEN <<Head(sorted)>> \o InsertByLastActive(x, Tail(sorted))
         ELSE <<x>> \o sorted

RECURSIVE SortByLastActive(_)
\* `sessions.sort((a, b) => b.lastActiveAt - a.lastActiveAt)`, a stable sort
SortByLastActive(ss) ==
    IF ss = << >> THEN << >>
    ELSE InsertByLastActive(ss[Len(ss)], SortByLastActive(Pop(ss)))

\* Array.prototype.slice(0, n) for n >= 0
SliceFirst(ss, n) == IF Len(ss) > n THEN SubSeq(ss, 1, n) ELSE ss

\* SessionManager.list({activeMinutes, limit})
List(activeMinutes, limit) ==
    LET cutoff == now - activeMinutes.value * 60000
        active == IF Truthy(activeMinutes)
                  THEN SelectSeq(Values, LAMBDA x : x.lastActiveAt >= cutoff)
                  ELSE Values
        sorted == SortByLastActive(active)
        capped == IF Truthy(limit) THEN SliceFirst(sorted, limit.value) ELSE sorted
    IN [i \in 1..Len(capped) |-> toJSON(capped[i])]

\* a list call and what it returned
Listed(activeMinutes, limit, result) ==
    [activeMinutes |-> activeMinutes, limit |-> limit, sessions |-> result]

\* no list call yet
NotListed == Listed(NotGiven, NotGiven, << >>)

\* a call of getOrCreate, get, delete or clear and what it returned: the
\* Session object (0: null) or, for delete, whether the key existed
Returned(call, key, session, existed) ==
    [call |-> call, key |-> key, session |-> session, existed |-> existed]

\* no such call yet
NoResult == Returned("", "", 0, FALSE)

\* the activeMinutes and limit a caller gives
ListMinutes == {NotGiven, Given(0), Given(5)}
ListLimits == {NotGiven, Given(0), Given(1)}

----------------------------------------------------------------------------
(* RpcHandler: frames and events (src/rpc.js) *)

\* A frame given to _send.  For a "res" frame runId is not on the wire: it
\* records the run the request started (0: none).
Res(id, ok, error, run) ==
    [type |-> "res", id |-> id, ok |-> ok, error |-> error, seq |-> 0,
     sessionKey |-> "", runId |-> run, state |-> "", text |-> << >>]

Event(n, key, run, state, text, error) ==
    [type |-> "event", id |-> 0, ok |-> TRUE, error |-> error, seq |-> n,
     sessionKey |-> key, runId |-> run, state |-> state, text |-> text]

\* `seq: this._seq++`
EventSeq_post(n) == n

\* `seq: ++this._seq`: the seq of the event emitted when _seq is n
EventSeq(n) == n + 1

\* _emitEvent('chat', payload)
EmitEvent(key, run, state, text, error) ==
    /\ seq' = seq + 1
    /\ sent' = Append(sent, Event(EventSeq(seq), key, run, state, text, error))

\* the run-was-cancelled check dropped
StillCurrent_always(sess, run) == TRUE

\* `session.currentRunId !== runId` of onChunk and onDone, negated
StillCurrent(sess, run) == sess.currentRunId = run

\* onDone without `session.currentRunId = null`
DoneSession_keep(sess, text) == pushMessage(sess, "assistant", text)

\* onDone: pushMessage('assistant', accumulated); currentRunId = null
DoneSession(sess, text) ==
    [pushMessage(sess, "assistant", text) EXCEPT !.currentRunId = 0]

\* onError without `session.currentRunId = null`
ErrorSession_keep(sess) == sess

\* onError: currentRunId = null
ErrorSession(sess) == [sess EXCEPT !.currentRunId = 0]

----------------------------------------------------------------------------
(* The callbacks a stream call was given.  A call with run = 0 was made by *)
(* a caller that uses the Agent directly and records what it receives; a   *)
(* call with run > 0 was made by RpcHandler._streamChat.                   *)

Cb(c, cb, chunk, code) == [call |-> c, cb |-> cb, chunk |-> chunk, code |-> code]

NoCallback == UNCHANGED <<cbLog, sessions, seq, sent>>

\* an onChunk that keeps the latest chunk only
Accumulate_latest(accumulated, chunk) == chunk

\* onChunk: `accumulated += chunk`
Accumulate(accumulated, chunk) == accumulated \o chunk

\* acc: `accumulated` after `accumulated += chunk`
OnChunk(c, chunk, acc) ==
    IF calls[c].run = 0
    THEN /\ cbLog' = Append(cbLog, Cb(c, "onChunk", chunk, ""))
         /\ UNCHANGED <<sessions, seq, sent>>
    ELSE LET s == calls[c].session IN
         /\ IF StillCurrent(sessions[s], calls[c].run)
            THEN EmitEvent(sessions[s].key, calls[c].run, "delta", acc, "")
            ELSE UNCHANGED <<seq, sent>>
         /\ UNCHANGED <<cbLog, sessions>>

OnDone(c) ==
    IF calls[c].run = 0
    THEN /\ cbLog' = Append(cbLog, Cb(c, "onDone", << >>, ""))
         /\ UNCHANGED <<sessions, seq, sent>>
    ELSE LET s == calls[c].session IN
         /\ IF StillCurrent(sessions[s], calls[c].run)
            THEN /\ sessions' = [sessions EXCEPT ![s] = DoneSession(@, calls[c].accumulated)]
                 /\ EmitEvent(sessions[s].key, calls[c].run, "final", calls[c].accumulated, "")
            ELSE UNCHANGED <<sessions, seq, sent>>
         /\ UNCHANGED cbLog

OnError(c, code) ==
    IF calls[c].run = 0
    THEN /\ cbLog' = Append(cbLog, Cb(c, "onError", << >>, code))
         /\ UNCHANGED <<sessions, seq, sent>>
    ELSE LET s == calls[c].session IN
         /\ sessions' = [sessions EXCEPT ![s] = ErrorSession(@)]
         /\ EmitEvent(sessions[s].key, calls[c].run, "error", calls[c].accumulated, code)
         /\ UNCHANGED cbLog

----------------------------------------------------------------------------
(* Agent.stream, resumed by the backend *)

\* `for await` yields a part
BackendChunk(c, chunk) ==
    /\ c \in 1..Len(calls) /\ Streaming(c)
    /\ calls[c].parts < MaxChunks
    /\ LET a == calls[c].agent IN
       IF AbortSignalled(agents[a])
       THEN \* break, then the abort branch after the loop, then finally
            /\ agents' = [agents EXCEPT ![a] = StreamFinally(Rollback(@))]
            /\ calls' = [calls EXCEPT ![c] = Return(@, "aborted")]
            /\ NoCallback
       ELSE /\ UNCHANGED agents
            /\ IF chunk # << >>
               THEN /\ calls' = [calls EXCEPT ![c].assistantText = @ \o chunk,
                                             ![c].accumulated = Accumulate(@, chunk),
                                             ![c].parts = @ + 1]
                    /\ OnChunk(c, chunk, Accumulate(calls[c].accumulated, chunk))
               ELSE /\ calls' = [calls EXCEPT ![c].parts = @ + 1]
                    /\ NoCallback
    /\ UNCHANGED <<registry, connected, nextId>>
    /\ UNCHANGED gwVars

\* the response stream is exhausted
BackendEnd(c) ==
    /\ c \in 1..Len(calls) /\ Streaming(c)
    /\ LET a == calls[c].agent IN
       IF AbortSignalled(agents[a])
       THEN /\ agents' = [agents EXCEPT ![a] = StreamFinally(Rollback(@))]
            /\ calls' = [calls EXCEPT ![c] = Return(@, "aborted")]
            /\ NoCallback
       ELSE /\ agents' = [agents EXCEPT ![a] =
                    StreamFinally(PushAssistant(@, c, calls[c].assistantText))]
            /\ calls' = [calls EXCEPT ![c] = Return(@, "done")]
            /\ OnDone(c)
    /\ UNCHANGED <<registry, connected, nextId>>
    /\ UNCHANGED gwVars

\* client.chat() or a step of the iteration throws
BackendFail(c) ==
    /\ c \in 1..Len(calls) /\ Streaming(c)
    /\ LET a == calls[c].agent IN
       IF AbortSignalled(agents[a])
       THEN /\ agents' = [agents EXCEPT ![a] = StreamFinally(Rollback(@))]
            /\ calls' = [calls EXCEPT ![c] = Return(@, "aborted")]
            /\ NoCallback
       ELSE /\ agents' = [agents EXCEPT ![a] = StreamFinally(Rollback(@))]
            /\ calls' = [calls EXCEPT ![c] = Return(@, "error")]
            /\ OnError(c, "stream_error")
    /\ UNCHANGED <<registry, connected, nextId>>
    /\ UNCHANGED gwVars

----------------------------------------------------------------------------
(* A caller that drives one Agent directly (the 'message' and 'reset'      *)
(* frames of unnamed/part_002, and abort())                                *)

\* Agent.stream(content, callbacks) on Agent a, up to its first await, for
\* a caller that records the callbacks
AgentStream(a, content) ==
    LET c == Len(calls) + 1 IN
    IF StreamRejected(agents[a])
    THEN /\ calls' = Append(calls, Return(NewCall(a, content, "busy", 0, 0, agents[a].history), "busy"))
         /\ cbLog' = Append(cbLog, Cb(c, "onError", << >>, "busy"))
         /\ UNCHANGED <<agents, sessions, seq, sent>>
    ELSE /\ agents' = [agents EXCEPT ![a] = StreamBegin(@, c, content)]
         /\ calls' = Append(calls, NewCall(a, content, "streaming", 0, 0, agents[a].history))
         /\ NoCallback

\* agent.stream(content, callbacks)
EStream(content) ==
    /\ Len(calls) < MaxCalls
    /\ AgentStream(1, content)
    /\ UNCHANGED <<registry, connected, nextId>>
    /\ UNCHANGED gwVars

\* agent.abort(), at any time
EAbort ==
    /\ agents' = [agents EXCEPT ![1] = AgentAbort(@)]
    /\ UNCHANGED <<calls, cbLog>>
    /\ UNCHANGED rpcVars
    /\ UNCHANGED gwVars

\* Agent.reset() on Agent a; the stream call suspended on it, if any, notes
\* the reset
ResetAgent(a) ==
    /\ agents' = [agents EXCEPT ![a] = AgentReset(@)]
    /\ calls' = [c \in 1..Len(calls) |->
                    IF Streaming(c) /\ calls[c].agent = a
                    THEN [calls[c] EXCEPT !.resets = TRUE]
                    ELSE calls[c]]

\* agent.reset()
EReset ==
    /\ agents[1].history # << >>
    /\ ResetAgent(1)
    /\ UNCHANGED cbLog
    /\ UNCHANGED rpcVars
    /\ UNCHANGED gwVars

\* The turns an Agent holds after earlier runs: n turns, the last one an
\* assistant turn.
PreHist(n) ==
    [i \in 1..n |-> IF (n - i) % 2 = 0 THEN Turn("assistant", <<"x">>, -i)
                    ELSE Turn("user", <<"q">>, -i)]

\* history lengths the behaviours start from: a fresh Agent, and Agents one
\* run away from the cap
InitLens == {0, MAX_HISTORY - 1, MAX_HISTORY}

EngineInit ==
    /\ agents \in {<<[NewAgent EXCEPT !.history = PreHist(n)]>> : n \in InitLens}
    /\ calls = << >>
    /\ cbLog = << >>
    /\ registry = [k \in Keys |-> 0]
    /\ sessions = << >>
    /\ connected = FALSE
    /\ seq = 0
    /\ sent = << >>
    /\ nextId = 1
    /\ now = 0
    /\ listed = NotListed
    /\ gatewayToken = ""
    /\ returned = NoResult
    /\ clients = << >>

EngineNext ==
    \/ \E content \in Contents : EStream(content)
    \/ EAbort
    \/ EReset
    \/ \E c \in 1..Len(calls), chunk \in Chunks : BackendChunk(c, chunk)
    \/ \E c \in 1..Len(calls) : BackendEnd(c)
    \/ \E c \in 1..Len(calls) : BackendFail(c)

EngineSpec == EngineInit /\ [][EngineNext]_vars

\* the same caller on a newly constructed Agent
FreshEngineInit == EngineInit /\ agents = <<NewAgent>>

FreshEngineSpec == FreshEngineInit /\ [][EngineNext]_vars

----------------------------------------------------------------------------
(* RpcHandler.dispatch and the method handlers (src/rpc.js), one action    *)
(* per request: the handler's synchronous code, then the response that     *)
(* dispatch sends when the handler's promise settles (a microtask, before  *)
(* any backend I/O is delivered).                                          *)

Methods == {"connect", "chat.send", "chat.abort", "sessions.patch", "sessions.delete"}

\* SessionManager.getOrCreate(key): the registry, the Session objects and
\* the Agent objects afterwards
GetOrCreate(key) ==
    IF registry[key] # 0
    THEN [registry |-> registry, sessions |-> sessions, agents |-> agents]
    ELSE [registry |-> [registry EXCEPT ![key] = Len(sessions) + 1],
          sessions |-> Append(sessions, NewSession(key, Len(agents) + 1)),
          agents |-> Append(agents, NewAgent)]

\* getOrCreate can run within the model's bound on Session objects
CanGetOrCreate(key) == registry[key] # 0 \/ Len(sessions) < MaxSessions

\* a request can be dispatched within the model's bound on requests
CanDispatch == nextId <= MaxReqs

\* the handshake check left out
MustReject_never(method) == FALSE

\* `if (!this._connected && method !== 'connect')`
MustReject(method) == ~connected /\ method # "connect"

\* an exception of a handler that no catch turns into a response
Thrown_escapes(id, message) == << >>

\* the catch of dispatch: the frames sent when the handler throws
Thrown(id, message) == << Res(id, FALSE, message, 0) >>

\* `_sendError(id, 'Not connected ...')`
RejectUnconnected(method) ==
    /\ CanDispatch
    /\ MustReject(method)
    /\ sent' = Append(sent, Res(nextId, FALSE, "Not connected", 0))
    /\ nextId' = nextId + 1
    /\ UNCHANGED gwVars
    /\ UNCHANGED <<agents, calls, cbLog, registry, sessions, connected, seq>>

\* _connect
Connect ==
    /\ CanDispatch
    /\ CanGetOrCreate("main")
    /\ connected' = TRUE
    /\ LET g == GetOrCreate("main") IN
       /\ registry' = g.registry
       /\ sessions' = g.sessions
       /\ agents' = g.agents
    /\ sent' = Append(sent, Res(nextId, TRUE, "", 0))
    /\ nextId' = nextId + 1
    /\ UNCHANGED gwVars
    /\ UNCHANGED <<calls, cbLog, seq>>

\* _chatSend with valid content, and the synchronous part of _streamChat
\* and Agent.stream
ChatSend(key, text) ==
    /\ CanDispatch
    /\ ~MustReject("chat.send")
    /\ Len(calls) < MaxCalls
    /\ CanGetOrCreate(key)
    /\ LET g == GetOrCreate(key)
           s == g.registry[key]
           a == g.sessions[s].agent
           run == Len(calls) + 1
           sess1 == [g.sessions EXCEPT ![s] =
                        pushMessage([@ EXCEPT !.currentRunId = run], "user", text)]
       IN /\ registry' = g.registry
          /\ IF StreamRejected(g.agents[a])
             THEN \* onError({code: 'busy'}) before stream() returns
                  /\ agents' = g.agents
                  /\ calls' = Append(calls,
                        Return(NewCall(a, text, "busy", run, s, << >>), "busy"))
                  /\ sessions' = [sess1 EXCEPT ![s] = ErrorSession(@)]
                  /\ seq' = seq + 1
                  /\ sent' = sent \o
                        << Event(EventSeq(seq), g.sessions[s].key, run, "error", << >>, "busy"),
                           Res(nextId, TRUE, "", run) >>
             ELSE /\ agents' = [g.agents EXCEPT ![a] = StreamBegin(@, run, text)]
                  /\ calls' = Append(calls,
                        NewCall(a, text, "streaming", run, s, g.agents[a].history))
                  /\ sessions' = sess1
                  /\ seq' = seq
                  /\ sent' = Append(sent, Res(nextId, TRUE, "", run))
    /\ nextId' = nextId + 1
    /\ UNCHANGED gwVars
    /\ UNCHANGED <<cbLog, connected>>

\* _chatAbort without `session.currentRunId = null`
AbortSession_keep(sess) == sess

\* _chatAbort: `session.currentRunId = null`
AbortSession(sess) == [sess EXCEPT !.currentRunId = 0]

\* _chatAbort
ChatAbort(key) ==
    /\ CanDispatch
    /\ ~MustReject("chat.abort")
    /\ IF registry[key] = 0
       THEN \* throw new Error('Session not found')
            /\ sent' = sent \o Thrown(nextId, "Session not found")
            /\ UNCHANGED <<agents, sessions, seq>>
       ELSE LET s == registry[key]
                run == sessions[s].currentRunId
            IN /\ sessions' = [sessions EXCEPT ![s] = AbortSession(@)]
               /\ agents' = [agents EXCEPT ![sessions[s].agent] = AgentAbort(@)]
               /\ IF run # 0
                  THEN /\ seq' = seq + 1
                       /\ sent' = sent \o
                            << Event(EventSeq(seq), sessions[s].key, run, "aborted", << >>, ""),
                               Res(nextId, TRUE, "", 0) >>
                  ELSE /\ seq' = seq
                       /\ sent' = Append(sent, Res(nextId, TRUE, "", 0))
    /\ nextId' = nextId + 1
    /\ UNCHANGED gwVars
    /\ UNCHANGED <<calls, cbLog, registry, connected>>

\* _sessionsPatch with a sessionKey
SessionsPatch(key) ==
    /\ CanDispatch
    /\ ~MustReject("sessions.patch")
    /\ CanGetOrCreate(key)
    /\ LET g == GetOrCreate(key) IN
       /\ registry' = g.registry
       /\ sessions' = g.sessions
       /\ agents' = g.agents
    /\ sent' = Append(sent, Res(nextId, TRUE, "", 0))
    /\ nextId' = nextId + 1
    /\ UNCHANGED gwVars
    /\ UNCHANGED <<calls, cbLog, connected, seq>>

\* _sessionsDelete with a sessionKey: SessionManager.delete
SessionsDelete(key) ==
    /\ CanDispatch
    /\ ~MustReject("sessions.delete")
    /\ registry' = [registry EXCEPT ![key] = 0]
    /\ sent' = Append(sent, Res(nextId, TRUE, "", 0))
    /\ nextId' = nextId + 1
    /\ UNCHANGED gwVars
    /\ UNCHANGED <<agents, calls, cbLog, sessions, connected, seq>>

\* new RpcHandler(new SessionManager(...), ...)
Init ==
    /\ agents = << >>
    /\ calls = << >>
    /\ cbLog = << >>
    /\ registry = [k \in Keys |-> 0]
    /\ sessions = << >>
    /\ connected = FALSE
    /\ seq = 0
    /\ sent = << >>
    /\ nextId = 1
    /\ now = 0
    /\ listed = NotListed
    /\ gatewayToken = ""
    /\ returned = NoResult
    /\ clients = << >>

Next ==
    \/ \E m \in Methods : RejectUnconnected(m)
    \/ Connect
    \/ \E key \in Keys, text \in Contents : ChatSend(key, text)
    \/ \E key \in Keys : ChatAbort(key)
    \/ \E key \in Keys : SessionsPatch(key)
    \/ \E key \in Keys : SessionsDelete(key)
    \/ \E c \in 1..Len(calls), chunk \in Chunks : BackendChunk(c, chunk)
    \/ \E c \in 1..Len(calls) : BackendEnd(c)
    \/ \E c \in 1..Len(calls) : BackendFail(c)

Spec == Init /\ [][Next]_vars

----------------------------------------------------------------------------
(* The rest of dispatch and of the method table (src/rpc.js): requests     *)
(* without a method or with an unknown one, chat.send with any message,    *)
(* chat.history and the handlers that only answer.                         *)

\* the methods of _registerMethods whose handlers only build a payload
AnswerOnly ==
    {"agents.list", "agent.identity.get", "node.list", "health", "status",
     "config.get", "config.schema", "models.list"}

\* the keys of RpcHandler._methods
Registered ==
    {"connect", "chat.send", "chat.history", "chat.abort", "sessions.list",
     "sessions.patch", "sessions.delete"} \cup AnswerOnly

\* the methods the client names in its requests; "nope" is not registered
RequestMethods == Registered \cup {"nope"}

\* params.message of a chat.send: whether it is given, whether its content
\* is a string, and the content
NoMessage == [given |-> FALSE, string |-> FALSE, content |-> << >>]
NonStringMessage == [given |-> TRUE, string |-> FALSE, content |-> << >>]
Message(content) == [given |-> TRUE, string |-> TRUE, content |-> content]

Messages ==
    {NoMessage, NonStringMessage, Message(<< >>), Message(<<" ">>)}
        \cup {Message(t) : t \in Contents}

\* `!message || typeof message.content !== 'string'`
InvalidContent(message) == ~message.given \/ ~message.string

RECURSIVE TrimStart(_)
\* String.prototype.trimStart
TrimStart(text) ==
    IF text # << >> /\ Head(text) = " " THEN TrimStart(Tail(text)) ELSE text

RECURSIVE TrimEnd(_)
\* String.prototype.trimEnd
TrimEnd(text) ==
    IF text # << >> /\ text[Len(text)] = " " THEN TrimEnd(Pop(text)) ELSE text

\* String.prototype.trim
Trim(text) == TrimEnd(TrimStart(text))

\* an emptiness check without trim()
EmptyContent_untrimmed(text) == text = << >>

\* `!text.trim()`
EmptyContent(text) == Trim(text) = << >>

\* `if (!method)`: _sendError(id, 'Missing method')
MissingMethod ==
    /\ CanDispatch
    /\ sent' = Append(sent, Res(nextId, FALSE, "Missing method", 0))
    /\ nextId' = nextId + 1
    /\ UNCHANGED gwVars
    /\ UNCHANGED <<agents, calls, cbLog, registry, sessions, connected, seq>>

\* `if (!handler)`: a failed response 'Method not implemented'
UnknownMethod(method) ==
    /\ CanDispatch
    /\ ~MustReject(method)
    /\ method \notin Registered
    /\ sent' = Append(sent, Res(nextId, FALSE, "Method not implemented", 0))
    /\ nextId' = nextId + 1
    /\ UNCHANGED gwVars
    /\ UNCHANGED <<agents, calls, cbLog, registry, sessions, connected, seq>>

\* a handler that only builds a payload; sessions.patch and sessions.delete
\* without a sessionKey do the same
Answer(method) ==
    /\ CanDispatch
    /\ ~MustReject(method)
    /\ method \in AnswerOnly \cup {"sessions.patch", "sessions.delete"}
    /\ sent' = Append(sent, Res(nextId, TRUE, "", 0))
    /\ nextId' = nextId + 1
    /\ UNCHANGED gwVars
    /\ UNCHANGED <<agents, calls, cbLog, registry, sessions, connected, seq>>

\* _chatSend throws before it touches a Session
ChatSendThrows(message) ==
    /\ CanDispatch
    /\ ~MustReject("chat.send")
    /\ sent' = sent \o Thrown(nextId, message)
    /\ nextId' = nextId + 1
    /\ UNCHANGED gwVars
    /\ UNCHANGED <<agents, calls, cbLog, registry, sessions, connected, seq>>

\* _chatSend with any params.message
ChatSendMessage(key, message) ==
    IF InvalidContent(message)
    THEN ChatSendThrows("Missing or invalid message content")
    ELSE IF EmptyContent(message.content)
         THEN ChatSendThrows("Empty message content")
         ELSE ChatSend(key, message.content)

\* what _chatHistory returns for a registry reg of Session objects sess
\* (limit 0: no limit given; `limit && limit > 0`)
HistoryOf(reg, sess, key, limit) ==
    IF reg[key] = 0 THEN << >>
    ELSE IF limit # 0 /\ limit > 0 THEN SliceLast(sess[reg[key]].history, limit)
         ELSE sess[reg[key]].history

\* the response to chat.history: a successful response with the messages
HistoryRes(id, messages) ==
    [type |-> "res", id |-> id, ok |-> TRUE, error |-> "", seq |-> 0,
     sessionKey |-> "", runId |-> 0, state |-> "", text |-> << >>,
     messages |-> messages]

\* _chatHistory
ChatHistory(key, limit) ==
    /\ CanDispatch
    /\ ~MustReject("chat.history")
    /\ sent' = Append(sent, HistoryRes(nextId, HistoryOf(registry, sessions, key, limit)))
    /\ nextId' = nextId + 1
    /\ UNCHANGED gwVars
    /\ UNCHANGED <<agents, calls, cbLog, registry, sessions, connected, seq>>

\* the response to sessions.list: a successful response with the entries
ListRes(id, entries) ==
    [type |-> "res", id |-> id, ok |-> TRUE, error |-> "", seq |-> 0,
     sessionKey |-> "", runId |-> 0, state |-> "", text |-> << >>,
     sessions |-> entries]

\* _sessionsList
SessionsList(activeMinutes, limit) ==
    /\ CanDispatch
    /\ ~MustReject("sessions.list")
    /\ sent' = Append(sent, ListRes(nextId, List(activeMinutes, limit)))
    /\ nextId' = nextId + 1
    /\ UNCHANGED <<agents, calls, cbLog, registry, sessions, connected, seq>>
    /\ UNCHANGED gwVars

\* the requests of Spec and chat.history
HistoryNext ==
    \/ Next
    \/ \E key \in Keys, limit \in Limits : ChatHistory(key, limit)

HistorySpec == Init /\ [][HistoryNext]_vars

\* every request the client can send, with a backend that yields no parts:
\* a response stream ends or fails
DispatchNext ==
    \/ MissingMethod
    \/ \E m \in RequestMethods : RejectUnconnected(m)
    \/ \E m \in RequestMethods : UnknownMethod(m)
    \/ \E m \in RequestMethods : Answer(m)
    \/ Connect
    \/ \E key \in Keys, message \in Messages : ChatSendMessage(key, message)
    \/ \E key \in Keys, limit \in Limits : ChatHistory(key, limit)
    \/ \E am \in ListMinutes, limit \in ListLimits : SessionsList(am, limit)
    \/ \E key \in Keys : ChatAbort(key)
    \/ \E key \in Keys : SessionsPatch(key)
    \/ \E key \in Keys : SessionsDelete(key)
    \/ \E c \in 1..Len(calls) : BackendEnd(c)
    \/ \E c \in 1..Len(calls) : BackendFail(c)

DispatchSpec == Init /\ [][DispatchNext]_vars

\* message.content of the parts of a backend whose parts differ
Tokens == {<< >>, <<"x">>, <<"y">>}

\* chat.send and chat.abort on session 'main' of a connection whose backend
\* yields parts that differ
StreamNext ==
    \/ Connect
    \/ \E text \in Contents : ChatSend("main", text)
    \/ ChatAbort("main")
    \/ \E c \in 1..Len(calls), chunk \in Tokens : BackendChunk(c, chunk)
    \/ \E c \in 1..Len(calls) : BackendEnd(c)
    \/ \E c \in 1..Len(calls) : BackendFail(c)

StreamSpec == Init /\ [][StreamNext]_vars

----------------------------------------------------------------------------
(* A caller that drives one SessionManager directly while the clock        *)
(* advances (unnamed/part_000)                                             *)

\* the clock advances to the instant t
Tick(t) ==
    /\ t > now
    /\ now' = t
    /\ listed' = NotListed
    /\ UNCHANGED <<agents, calls, cbLog, registry, sessions, connected, seq, sent, nextId>>
    /\ UNCHANGED <<gatewayToken, returned, clients>>

\* the instants after the start at which the caller acts (ms): five
\* minutes later, and a millisecond after that
ListInstants == {300000, 300001}

\* manager.getOrCreate(key) for a key that is not registered
MCreate(key) ==
    /\ registry[key] = 0
    /\ CanGetOrCreate(key)
    /\ LET g == GetOrCreate(key) IN
       /\ registry' = g.registry
       /\ sessions' = g.sessions
       /\ agents' = g.agents
    /\ UNCHANGED <<calls, cbLog, connected, seq, sent, nextId>>
    /\ listed' = NotListed
    /\ UNCHANGED <<now, gatewayToken, returned, clients>>

\* manager.get(key).pushMessage('user', ...)
MPush(key) ==
    /\ registry[key] # 0
    /\ Len(sessions[registry[key]].history) < MaxMsgs
    /\ sessions' = [sessions EXCEPT ![registry[key]] = pushMessage(@, "user", <<"q">>)]
    /\ UNCHANGED <<agents, calls, cbLog, registry, connected, seq, sent, nextId>>
    /\ listed' = NotListed
    /\ returned' = NoResult
    /\ UNCHANGED <<now, gatewayToken, clients>>

\* manager.delete(key) for a registered key
MDelete(key) ==
    /\ registry[key] # 0
    /\ registry' = [registry EXCEPT ![key] = 0]
    /\ UNCHANGED <<agents, calls, cbLog, sessions, connected, seq, sent, nextId>>
    /\ listed' = NotListed
    /\ UNCHANGED <<now, gatewayToken, returned, clients>>

\* manager.list({activeMinutes, limit})
MList(activeMinutes, limit) ==
    /\ listed' = Listed(activeMinutes, limit, List(activeMinutes, limit))
    /\ returned' = NoResult
    /\ UNCHANGED <<agents, calls, cbLog, registry, sessions, connected, seq, sent, nextId>>
    /\ UNCHANGED <<now, gatewayToken, clients>>

\* a delete that always reports that the key existed
Delete_reportsTrue(key) ==
    [registry |-> [registry EXCEPT ![key] = 0], existed |-> TRUE]

\* SessionManager.delete(key): the registry afterwards and what it returns
Delete(key) ==
    [registry |-> [registry EXCEPT ![key] = 0], existed |-> registry[key] # 0]

\* manager.getOrCreate(key), for any key
MGetOrCreate(key) ==
    /\ CanGetOrCreate(key)
    /\ LET g == GetOrCreate(key) IN
       /\ registry' = g.registry
       /\ sessions' = g.sessions
       /\ agents' = g.agents
       /\ returned' = Returned("getOrCreate", key, g.registry[key], FALSE)
    /\ UNCHANGED <<calls, cbLog, connected, seq, sent, nextId>>
    /\ listed' = NotListed
    /\ UNCHANGED <<now, gatewayToken, clients>>

\* manager.get(key): `this._sessions.get(key) || null`
MGet(key) ==
    /\ returned' = Returned("get", key, registry[key], FALSE)
    /\ UNCHANGED <<agents, calls, cbLog, registry, sessions, connected, seq, sent, nextId>>
    /\ listed' = NotListed
    /\ UNCHANGED <<now, gatewayToken, clients>>

\* manager.delete(key), for any key
ManagerDelete(key) ==
    /\ registry' = Delete(key).registry
    /\ returned' = Returned("delete", key, 0, Delete(key).existed)
    /\ UNCHANGED <<agents, calls, cbLog, sessions, connected, seq, sent, nextId>>
    /\ listed' = NotListed
    /\ UNCHANGED <<now, gatewayToken, clients>>

\* manager.clear()
MClear ==
    /\ registry' = [k \in Keys |-> 0]
    /\ returned' = Returned("clear", "", 0, FALSE)
    /\ UNCHANGED <<agents, calls, cbLog, sessions, connected, seq, sent, nextId>>
    /\ listed' = NotListed
    /\ UNCHANGED <<now, gatewayToken, clients>>

\* a caller that drives the SessionManager directly (its list calls give no
\* filter), next to a client whose requests are connect and chat.history
\* without a limit
ManagerNext ==
    \/ \E key \in Keys : MGetOrCreate(key)
    \/ \E key \in Keys : MGet(key)
    \/ \E key \in Keys : ManagerDelete(key)
    \/ MClear
    \/ \E key \in Keys : MPush(key)
    \/ MList(NotGiven, NotGiven)
    \/ Connect
    \/ \E key \in Keys : ChatHistory(key, 0)

ManagerSpec == Init /\ [][ManagerNext]_vars

----------------------------------------------------------------------------
(* A caller that pushes messages onto the log of one Session, which may    *)
(* already hold messages of earlier runs (unnamed/part_000)                *)

\* the decimal digits
Digits == <<"0", "1", "2", "3", "4", "5", "6", "7", "8", "9">>

\* the text of the i-th message of earlier runs: i in three digits
PreText(i) ==
    << Digits[(i \div 100) + 1], Digits[((i \div 10) % 10) + 1], Digits[(i % 10) + 1] >>

\* the log a Session holds after n messages of earlier runs, all different
PreLog(n) ==
    [i \in 1..n |-> Msg(IF i % 2 = 1 THEN "user" ELSE "assistant", PreText(i))]

\* log lengths the behaviours start from: a new Session, and Sessions one
\* message short of the cap and at the cap
LogLens == {0, MAX_SESSION_HISTORY - 1, MAX_SESSION_HISTORY}

\* the roles and the texts of the messages pushed
Roles == {"user", "assistant"}
Texts == {<<"q">>, <<"x">>}

\* one registered Session and its Agent
LogInit ==
    /\ now = 0
    /\ agents = << NewAgent >>
    /\ calls = << >>
    /\ cbLog = << >>
    /\ registry = [k \in Keys |-> IF k = "main" THEN 1 ELSE 0]
    /\ sessions \in {<< [NewSession("main", 1) EXCEPT !.history = PreLog(n)] >> : n \in LogLens}
    /\ connected = FALSE
    /\ seq = 0
    /\ sent = << >>
    /\ nextId = 1
    /\ listed = NotListed
    /\ gatewayToken = ""
    /\ returned = NoResult
    /\ clients = << >>

\* session.pushMessage(role, text), a millisecond after the previous one
SPush(role, text) ==
    /\ now < MaxPushes
    /\ now' = now + 1
    /\ sessions' = [sessions EXCEPT ![1] = pushMessage(@, role, text)]
    /\ UNCHANGED <<agents, calls, cbLog, registry, connected, seq, sent, nextId>>
    /\ UNCHANGED <<listed, gatewayToken, returned, clients>>

LogNext == \E role \in Roles, text \in Texts : SPush(role, text)

LogSpec == LogInit /\ [][LogNext]_vars

ListNext ==
    \/ \E t \in ListInstants : Tick(t)
    \/ \E key \in Keys : MCreate(key)
    \/ \E key \in Keys : MPush(key)
    \/ \E key \in Keys : MDelete(key)
    \/ \E am \in ListMinutes, limit \in ListLimits : MList(am, limit)

\* new SessionManager(...)
ListSpec == Init /\ [][ListNext]_vars

----------------------------------------------------------------------------
(* The gateway's connection handler (unnamed/part_002): authentication of  *)
(* a new connection, and the size check and rate limit of its frames.      *)
(* What the handler does with a frame it admits (decoding it, and reset()  *)
(* or stream() on the connection's Agent) is the caller of EngineSpec.     *)

\* A connection: the token its URL and its x-gateway-token header carried
\* ("": absent or empty), the code it was closed with (0: open), whether the
\* 'message' handler is registered, the closure's Agent (0: none) and
\* messageTimestamps, and what the handler did with the latest frame.
\* verdict: "" (no frame yet), "message_too_large", "rate_limited" or
\* "admitted"; handled, for an admitted frame: "invalid_message" (an error
\* frame sent after decoding), "done" (reset) or "stream" (agent.stream).
\* member: the socket is in wss.clients; isAlive: ws.isAlive (FALSE also
\* stands for a flag never set); terminated: ws.terminate() was called.
\* since, lastPing and lastPong are not fields of the program's object: the
\* instants of the connection's arrival, of the latest ping sent to it and
\* of the latest pong received from it (-1: none).
Accepted(query, header, a) ==
    [query |-> query, header |-> header, closeCode |-> 0, listening |-> TRUE,
     agent |-> a, messageTimestamps |-> << >>, verdict |-> "", handled |-> "",
     member |-> TRUE, isAlive |-> TRUE, terminated |-> FALSE,
     since |-> now, lastPing |-> -1, lastPong |-> -1]

\* `ws.close(4401, 'Unauthorized'); return`: the socket stays in wss.clients
\* until the closing handshake is over
Refused(query, header) ==
    [query |-> query, header |-> header, closeCode |-> 4401, listening |-> FALSE,
     agent |-> 0, messageTimestamps |-> << >>, verdict |-> "", handled |-> "",
     member |-> TRUE, isAlive |-> FALSE, terminated |-> FALSE,
     since |-> now, lastPing |-> -1, lastPong |-> -1]

\* `url.searchParams.get('token') || req.headers['x-gateway-token'] || ''`
SuppliedToken(query, header) == IF query # "" THEN query ELSE header

\* the token check left out
Unauthorized_never(token) == FALSE

\* `GATEWAY_TOKEN && token !== GATEWAY_TOKEN`
Unauthorized(token) == gatewayToken # "" /\ token # gatewayToken

\* the tokens a client sends, and the tokens the gateway is configured with
ClientTokens == {"", "s", "w"}
GatewayTokens == {"", "s"}

\* wss.on('connection')
WsConnection(query, header) ==
    /\ Len(clients) < MaxConns
    /\ IF Unauthorized(SuppliedToken(query, header))
       THEN /\ clients' = Append(clients, Refused(query, header))
            /\ UNCHANGED agents
       ELSE /\ clients' = Append(clients, Accepted(query, header, Len(agents) + 1))
            /\ agents' = Append(agents, NewAgent)
    /\ UNCHANGED <<calls, cbLog, registry, sessions, connected, seq, sent, nextId>>
    /\ UNCHANGED <<now, listed, gatewayToken, returned>>

\* a window that keeps the timestamp that is exactly RATE_LIMIT_WINDOW old
Expired_older(t, n) == t < n - RATE_LIMIT_WINDOW

\* `messageTimestamps[0] <= now - RATE_LIMIT_WINDOW`
Expired(t, n) == t <= n - RATE_LIMIT_WINDOW

RECURSIVE DropExpired(_, _)
\* `while (messageTimestamps.length > 0 && ...) messageTimestamps.shift()`
DropExpired(ts, n) ==
    IF ts # << >> /\ Expired(Head(ts), n) THEN DropExpired(Tail(ts), n) ELSE ts

\* `messageTimestamps.length > RATE_LIMIT_MAX`
RateLimited(ts) == Len(ts) > RATE_LIMIT_MAX

\* data.length of the frames a client sends
FrameSizes == {1, MAX_MESSAGE_SIZE, MAX_MESSAGE_SIZE + 1}

\* What a frame's payload is: not JSON, JSON without a type, a reset, a
\* message with content, a message whose content is missing or blank, or
\* JSON of another type
Frames == {"garbage", "notype", "reset", "message", "blank", "other"}

\* a size check that lets every frame pass
TooLarge_never(size) == FALSE

\* `data.length > MAX_MESSAGE_SIZE`
TooLarge(size) == size > MAX_MESSAGE_SIZE

\* what the handler does with an admitted frame, after JSON.parse
Handling(frame) ==
    CASE frame = "reset" -> "done"
      [] frame = "message" -> "stream"
      [] OTHER -> "invalid_message"

\* ws.on('message')
WsMessage(i, size, frame) ==
    /\ i \in 1..Len(clients)
    /\ clients[i].listening
    /\ IF TooLarge(size)
       THEN /\ clients' = [clients EXCEPT ![i].verdict = "message_too_large",
                                          ![i].handled = ""]
            /\ UNCHANGED <<agents, calls, cbLog>>
       ELSE LET ts == DropExpired(Append(clients[i].messageTimestamps, now), now) IN
            /\ Len(clients[i].messageTimestamps) < MaxFrames
            /\ IF RateLimited(ts)
               THEN /\ clients' = [clients EXCEPT ![i].messageTimestamps = ts,
                                                  ![i].verdict = "rate_limited",
                                                  ![i].handled = ""]
                    /\ UNCHANGED <<agents, calls, cbLog>>
               ELSE /\ clients' = [clients EXCEPT ![i].messageTimestamps = ts,
                                                  ![i].verdict = "admitted",
                                                  ![i].handled = Handling(frame)]
                    /\ CASE frame = "reset" ->
                                /\ ResetAgent(clients[i].agent)
                                /\ UNCHANGED cbLog
                         [] frame = "message" ->
                                /\ Len(calls) < MaxCalls
                                /\ AgentStream(clients[i].agent, <<"q">>)
                         [] OTHER -> UNCHANGED <<agents, calls, cbLog>>
    /\ UNCHANGED <<registry, sessions, connected, seq, sent, nextId>>
    /\ UNCHANGED <<now, listed, gatewayToken, returned>>

\* a gateway with or without a token configured, before any connection
AuthInit ==
    /\ agents = << >>
    /\ calls = << >>
    /\ cbLog = << >>
    /\ registry = [k \in Keys |-> 0]
    /\ sessions = << >>
    /\ connected = FALSE
    /\ seq = 0
    /\ sent = << >>
    /\ nextId = 1
    /\ now = 0
    /\ listed = NotListed
    /\ gatewayToken \in GatewayTokens
    /\ returned = NoResult
    /\ clients = << >>

\* the frames the clients of AuthSpec send: none starts a stream call
AuthFrames == {"garbage", "reset"}

AuthNext ==
    \/ \E query \in ClientTokens, header \in ClientTokens : WsConnection(query, header)
    \/ \E i \in 1..Len(clients), size \in FrameSizes, frame \in AuthFrames :
            WsMessage(i, size, frame)

AuthSpec == AuthInit /\ [][AuthNext]_vars

\* the instants after the start at which a client sends frames (ms): a
\* millisecond short of the window, the window, and a millisecond short of
\* two windows
GateInstants == {RATE_LIMIT_WINDOW - 1, RATE_LIMIT_WINDOW, 2 * RATE_LIMIT_WINDOW - 1}

\* one connection, accepted by a gateway without a token
GateInit ==
    /\ agents = << NewAgent >>
    /\ calls = << >>
    /\ cbLog = << >>
    /\ registry = [k \in Keys |-> 0]
    /\ sessions = << >>
    /\ connected = FALSE
    /\ seq = 0
    /\ sent = << >>
    /\ nextId = 1
    /\ now = 0
    /\ listed = NotListed
    /\ gatewayToken = ""
    /\ returned = NoResult
    /\ clients = << Accepted("", "", 1) >>

GateNext ==
    \/ \E t \in GateInstants : Tick(t)
    \/ \E i \in 1..Len(clients), size \in FrameSizes, frame \in Frames :
            WsMessage(i, size, frame)

GateSpec == GateInit /\ [][GateNext]_vars

----------------------------------------------------------------------------
(* The gateway's heartbeat (unnamed/part_002, src/gateway.js): the ping     *)
(* timer, the pongs of the clients, and connections that go away.          *)

\* `ws.terminate(); return`: the socket is destroyed and leaves wss.clients
Terminate(conn) ==
    [conn EXCEPT !.member = FALSE, !.terminated = TRUE, !.listening = FALSE,
                 !.closeCode = IF @ = 0 THEN 1006 ELSE @]

\* a timer that pings without clearing the flag
Ping_keepAlive(conn, t) == [conn EXCEPT !.lastPing = t]

\* `ws.isAlive = false; ws.ping()` at instant t
Ping(conn, t) == [conn EXCEPT !.isAlive = FALSE, !.lastPing = t]

\* the callback of pingInterval, run when the timer fires: the clock is one
\* interval further
PingInterval ==
    /\ now < MaxBeats * HEARTBEAT_INTERVAL
    /\ now' = now + HEARTBEAT_INTERVAL
    /\ clients' = [i \in 1..Len(clients) |->
                    IF ~clients[i].member THEN clients[i]
                    ELSE IF ~clients[i].isAlive THEN Terminate(clients[i])
                    ELSE Ping(clients[i], now + HEARTBEAT_INTERVAL)]
    /\ listed' = NotListed
    /\ UNCHANGED <<agents, calls, cbLog, registry, sessions, connected, seq, sent, nextId>>
    /\ UNCHANGED <<gatewayToken, returned>>

\* ws.on('pong', heartbeat): a pong frame of connection i arrives, whether
\* the client answers a ping or sends it unasked
Heartbeat(i) ==
    /\ i \in 1..Len(clients)
    /\ clients[i].member /\ clients[i].listening
    /\ clients' = [clients EXCEPT ![i].isAlive = TRUE, ![i].lastPong = now]
    /\ UNCHANGED <<agents, calls, cbLog, registry, sessions, connected, seq, sent, nextId>>
    /\ UNCHANGED <<now, listed, gatewayToken, returned>>

\* the socket of connection i closes (the client goes away, or the closing
\* handshake of a refused connection is over): it leaves wss.clients
WsClose(i) ==
    /\ i \in 1..Len(clients)
    /\ clients[i].member
    /\ clients' = [clients EXCEPT ![i].member = FALSE, ![i].listening = FALSE,
                                  ![i].closeCode = IF @ = 0 THEN 1000 ELSE @]
    /\ UNCHANGED <<agents, calls, cbLog, registry, sessions, connected, seq, sent, nextId>>
    /\ UNCHANGED <<now, listed, gatewayToken, returned>>

\* a gateway with a token configured
BeatInit ==
    /\ agents = << >>
    /\ calls = << >>
    /\ cbLog = << >>
    /\ registry = [k \in Keys |-> 0]
    /\ sessions = << >>
    /\ connected = FALSE
    /\ seq = 0
    /\ sent = << >>
    /\ nextId = 1
    /\ now = 0
    /\ listed = NotListed
    /\ gatewayToken = "s"
    /\ returned = NoResult
    /\ clients = << >>

BeatNext ==
    \/ \E query \in ClientTokens, header \in ClientTokens : WsConnection(query, header)
    \/ PingInterval
    \/ \E i \in 1..Len(clients) : Heartbeat(i)
    \/ \E i \in 1..Len(clients) : WsClose(i)

BeatSpec == BeatInit /\ [][BeatNext]_vars

----------------------------------------------------------------------------
(* Properties of one Agent under EngineSpec *)

\* the call c returns in this step the way `how` says
Returns(c, how) == c \in 1..Len(calls) /\ Streaming(c) /\ calls'[c].pc = how

\* the turns of history h pushed by call c
TurnsOf(h, c) == {i \in 1..Len(h) : h[i].call = c}

\* the step is a stream call made while agent a is busy
BusyCall(a) ==
    /\ Len(calls') = Len(calls) + 1
    /\ calls'[Len(calls')].agent = a
    /\ agents[a].busy

\* C1: at most one stream call is in progress on an Agent at a time, and a
\* stream call made while the Agent is busy invokes onError with code 'busy'
\* exactly once (and no other callback) and leaves the Agent's history, busy
\* flag and abort controller, and the call in progress, unchanged.
C1_SingleFlight ==
    /\ [](\A a \in 1..Len(agents) : Cardinality(InProgress(a)) <= 1)
    /\ [][\A a \in 1..Len(agents) : BusyCall(a) =>
            /\ agents' = agents
            /\ calls'[Len(calls')].pc = "busy"
            /\ SubSeq(calls', 1, Len(calls)) = calls
            /\ cbLog' = Append(cbLog, Cb(Len(calls'), "onError", << >>, "busy"))]_vars

\* a call was rejected as busy while another call is in progress
C1_Witness ==
    \E c1, c2 \in 1..Len(calls) : calls[c1].pc = "busy" /\ Streaming(c2)

C3_CompletionAppendsPair ==
    [][\A c \in 1..Len(calls) : Returns(c, "done") =>
         LET h == agents'[calls[c].agent].history
             n == Len(h)
         IN /\ n >= 2
            /\ h[n - 1] = Turn("user", calls[c].content, c)
            /\ h[n] = Turn("assistant", calls[c].assistantText, c)
            /\ TurnsOf(h, c) = {n - 1, n}]_vars

\* C4 (as claimed): in every state, also while a call is in progress, an
\* Agent's history holds at most MAX_HISTORY turns.
C4_HistoryCapped ==
    \A a \in 1..Len(agents) : Len(agents[a].history) <= MAX_HISTORY

----------------------------------------------------------------------------
(* Properties of the RpcHandler under Spec *)

IsEvent(f) == f.type = "event"

\* the events emitted on the connection, in order
Events == SelectSeq(sent, IsEvent)

\* the events carrying runId r that this step emits
NewEvents(r) ==
    {i \in (Len(sent) + 1)..Len(sent') : IsEvent(sent'[i]) /\ sent'[i].runId = r}

\* an event of run r in one of the given states has been emitted
Emitted(r, states) ==
    \E i \in 1..Len(sent) :
        IsEvent(sent[i]) /\ sent[i].runId = r /\ sent[i].state \in states

\* the runs started by chat.send
Runs == {c \in 1..Len(calls) : calls[c].run # 0}

\* chat.abort has been handled for run c: it emitted the run's aborted
\* event, or it signalled the abort controller of the run's stream call
AbortHandled(c) ==
    \/ Emitted(c, {"aborted"})
    \/ Streaming(c) /\ agents[calls[c].agent].abortController = "aborted"
    \/ calls[c].pc = "aborted"

\* C5: once chat.abort has been handled for a run, no step emits a delta,
\* final or error event carrying its runId, whatever the backend delivers
\* afterwards (parts, the end of the stream, a failure).
C5_SilentAfterAbort ==
    [][\A c \in Runs : AbortHandled(c) =>
         \A i \in NewEvents(c) : sent'[i].state \notin {"delta", "final", "error"}]_vars

\* a run was aborted by chat.abort and its stream call was resumed by the
\* backend afterwards
C5_Witness == \E c \in Runs : Emitted(c, {"aborted"}) /\ calls[c].pc = "aborted"

\* C6: the n-th event emitted on the connection carries seq = n, for events
\* of every kind and of every session, and _seq counts the events emitted.
C6_SeqIsOrdinal ==
    /\ \A n \in 1..Len(Events) : Events[n].seq = n
    /\ seq = Len(Events)

\* events of two sessions have been emitted
C6_Witness ==
    \E i, j \in 1..Len(Events) :
        i < j /\ Events[i].sessionKey # Events[j].sessionKey

\* C7: if a Session's currentRunId is non-null, exactly one stream call is
\* in progress on the Session's Agent, and it is the call made for that
\* runId by that Session.
C7_RunIdMeansInFlight ==
    \A s \in 1..Len(sessions) :
        LET r == sessions[s].currentRunId IN
        r # 0 => /\ r \in Runs
                 /\ InProgress(sessions[s].agent) = {r}
                 /\ calls[r].session = s

\* a run is current and has received a part
C7_Witness ==
    \E s \in 1..Len(sessions) :
        sessions[s].currentRunId # 0 /\ calls[sessions[s].currentRunId].parts > 0

\* C8 (as claimed): when the stream call of an acknowledged chat.send has
\* returned (the backend stream ended or failed, or the call was rejected),
\* a terminal event (final, error or aborted) carrying its runId has been
\* emitted and the Session's currentRunId is not that runId.
C8_RunEndsWithTerminalEvent ==
    \A c \in Runs :
        ~Streaming(c) =>
            /\ Emitted(c, {"final", "error", "aborted"})
            /\ sessions[calls[c].session].currentRunId # c

\* the step is a chat.send whose stream call is rejected as busy
BusySend ==
    /\ Len(calls') = Len(calls) + 1
    /\ calls'[Len(calls')].run # 0
    /\ calls'[Len(calls')].pc = "busy"

\* C9 (as claimed): a chat.send on a Session whose Agent is streaming
\* changes neither the Session's currentRunId, nor its display log, nor the
\* Agent's history.
C9_BusySendChangesNothing ==
    [][BusySend =>
         LET s == calls'[Len(calls')].session IN
         /\ sessions'[s].currentRunId = sessions[s].currentRunId
         /\ sessions'[s].history = sessions[s].history
         /\ agents'[sessions[s].agent].history = agents[sessions[s].agent].history]_vars

\* run c is no longer its Session's current run
Superseded(c) == sessions[calls[c].session].currentRunId # c

C11_ErrorAlwaysReported ==
    [][/\ \A c \in Runs : Returns(c, "error") =>
            LET s == calls[c].session IN
            /\ sessions'[s].currentRunId = 0
            /\ Cardinality(NewEvents(c)) = 1
            /\ \A i \in NewEvents(c) :
                 /\ sent'[i].state = "error"
                 /\ sent'[i].sessionKey = sessions[s].key
                 /\ sent'[i].text = calls[c].accumulated
                 /\ sent'[i].error = "stream_error"
       /\ BusySend =>
            LET c == Len(calls')
                s == calls'[c].session
            IN /\ sessions'[s].currentRunId = 0
               /\ Cardinality(NewEvents(c)) = 1
               /\ \A i \in NewEvents(c) :
                    /\ sent'[i].state = "error"
                    /\ sent'[i].sessionKey = sessions'[s].key
                    /\ sent'[i].text = << >>
                    /\ sent'[i].error = "busy"]_vars

\* a run that a busy chat.send had superseded has failed with text
\* accumulated, and its error event was emitted
C11_Witness ==
    \E c1, c2 \in Runs :
        /\ c1 < c2 /\ calls[c1].session = calls[c2].session
        /\ calls[c1].pc = "error" /\ calls[c2].pc = "busy"
        /\ \E i \in 1..Len(sent) :
             /\ IsEvent(sent[i]) /\ sent[i].runId = c1
             /\ sent[i].state = "error" /\ sent[i].text # << >>

----------------------------------------------------------------------------
(* Properties of the Agent's busy flag and abort controller under          *)
(* EngineSpec                                                              *)

\* the callbacks of call c that this step invokes
NewCallbacks(c) ==
    {i \in (Len(cbLog) + 1)..Len(cbLog') : cbLog'[i].call = c}

\* C19: when a stream call returns on completion, on a backend error or on
\* cancellation, the Agent's busy flag is false and its abort controller is
\* null; and in every state the abort controller is non-null exactly when
\* busy is true.
C19_TokenIffBusy ==
    /\ [](\A a \in 1..Len(agents) :
            agents[a].abortController # "null" <=> agents[a].busy)
    /\ [][\A c \in 1..Len(calls) : \A how \in {"done", "error", "aborted"} :
            Returns(c, how) =>
                /\ ~agents'[calls[c].agent].busy
                /\ agents'[calls[c].agent].abortController = "null"]_vars

\* one call has returned on cancellation and another on completion
C19_Witness ==
    \E c1, c2 \in 1..Len(calls) : calls[c1].pc = "aborted" /\ calls[c2].pc = "done"

\* C20: abort() on an Agent that is not busy changes nothing; abort() invokes
\* no callback itself; and once abort() was called during a stream call, no
\* step invokes a callback of that call, whether the backend then yields
\* parts, ends the stream or fails.
C20_AbortIsSilent ==
    /\ [](\A a \in 1..Len(agents) :
            ~agents[a].busy => AgentAbort(agents[a]) = agents[a])
    /\ [][/\ EAbort => cbLog' = cbLog /\ calls' = calls /\ UNCHANGED rpcVars
          /\ EAbort /\ ~agents[1].busy => UNCHANGED vars
          /\ \A c \in 1..Len(calls) :
                Streaming(c) /\ agents[calls[c].agent].abortController = "aborted"
                    => NewCallbacks(c) = {}]_vars

\* abort() was called during a stream call that had delivered a part, and
\* the backend resumed the call afterwards
C20_Witness ==
    \E c \in 1..Len(calls), i \in 1..Len(cbLog) :
        /\ calls[c].pc = "aborted"
        /\ cbLog[i].call = c /\ cbLog[i].cb = "onChunk"

----------------------------------------------------------------------------
(* Properties of chat.history under HistorySpec *)

\* C12 (as claimed): when a run completes and its final event is emitted, a
\* chat.history (without limit) for the run's session key, made before any
\* further request, returns a log whose last two entries are the run's user
\* message and its assistant message with the full accumulated text; if the
\* Session's log held nothing before the run, these are the only entries.
C12_HistoryEndsWithRun ==
    [][\A c \in Runs : Returns(c, "done") /\ NewEvents(c) # {} =>
         LET s == calls[c].session
             log == HistoryOf(registry', sessions', sessions[s].key, 0)
             n == Len(log)
         IN /\ n >= 2
            /\ log[n - 1] = Msg("user", calls[c].content)
            /\ log[n] = Msg("assistant", calls[c].accumulated)
            /\ Len(sessions[s].history) = 1 => n = 2]_vars

----------------------------------------------------------------------------
(* Properties of dispatch under DispatchSpec *)

\* the response frames with id i
Responses(i) == {j \in 1..Len(sent) : sent[j].type = "res" /\ sent[j].id = i}

\* the step dispatches a request
Dispatches == nextId' = nextId + 1

\* the step answers the request with one failed response and changes nothing
\* else: no Session, no Agent, no stream call, no event, no registry entry
OnlyFails ==
    /\ Len(sent') = Len(sent) + 1
    /\ SubSeq(sent', 1, Len(sent)) = sent
    /\ LET f == sent'[Len(sent')] IN
       f.type = "res" /\ f.id = nextId /\ ~f.ok /\ f.error # ""
    /\ UNCHANGED <<agents, calls, cbLog, registry, sessions, connected, seq>>

\* message.content is missing, not a string, empty or whitespace-only
Unusable(message) ==
    \/ ~message.given
    \/ ~message.string
    \/ \A i \in 1..Len(message.content) : message.content[i] = " "

\* C13: a chat.send whose message content is missing, not a string, empty or
\* whitespace-only is answered with a failed response and changes nothing
\* else: no Session is created, no currentRunId is set, nothing is appended
\* to a display log, no stream call is made and no event is emitted.
C13_UnusableContentRejected ==
    [][\A key \in Keys, message \in Messages :
         Unusable(message) /\ ChatSendMessage(key, message) => OnlyFails]_vars

\* on a connection with an empty registry, chat.send requests without content
\* and with whitespace-only content have been answered
C13_Witness ==
    /\ connected
    /\ registry["k"] = 0
    /\ \E i, j \in 1..Len(sent) :
         /\ sent[i].error = "Missing or invalid message content"
         /\ sent[j].error = "Empty message content"

C16_OneResponsePerRequest ==
    /\ \A i \in 1..(nextId - 1) : Cardinality(Responses(i)) = 1
    /\ \A j \in 1..Len(sent) :
         sent[j].type = "res" =>
            /\ sent[j].id \in 1..(nextId - 1)
            /\ sent[j].ok <=> sent[j].error = ""

\* a handler threw and a request named an unknown method
C16_Witness ==
    \E i, j \in 1..Len(sent) :
        /\ sent[i].error = "Session not found"
        /\ sent[j].error = "Method not implemented"

----------------------------------------------------------------------------
(* Properties of SessionManager.list under ListSpec *)

\* the registered Session objects
Registry == {s \in 1..Len(sessions) : IsValue(s)}

\* the registered Sessions whose last activity lies within the last
\* activeMinutes minutes
Recent(activeMinutes) ==
    {s \in Registry : sessions[s].lastActiveAt >= now - activeMinutes.value * 60000}

\* what an entry of the result exposes of a Session
Exposed(sess) ==
    [key |-> sess.key, createdAt |-> sess.createdAt,
     lastActiveAt |-> sess.lastActiveAt, messageCount |-> Len(sess.history)]

\* a filter field applies: it is given, and it is not 0 unless a 0 counts
Applies(zeroCounts, field) == field.given /\ (zeroCounts \/ field.value > 0)

\* The result of the list call is right, with a given 0 counting as a filter
\* or not: its entries expose distinct Sessions of the pool (the
\* recent Sessions if activeMinutes applies, all registered ones otherwise),
\* in descending order of lastActiveAt; there are as many as the pool holds,
\* or `limit` of them if limit applies and the pool holds more, and then no
\* Session left out is more recent than the last entry.
ListMeets(zeroCounts, call) ==
    LET r == call.sessions
        pool == IF Applies(zeroCounts, call.activeMinutes) THEN Recent(call.activeMinutes)
                ELSE Registry
        want == IF Applies(zeroCounts, call.limit) /\ call.limit.value < Cardinality(pool)
                THEN call.limit.value ELSE Cardinality(pool)
    IN /\ Len(r) = want
       /\ \A i \in 1..Len(r) : \E s \in pool : r[i] = Exposed(sessions[s])
       /\ \A i, j \in 1..Len(r) :
            i < j => r[i].lastActiveAt >= r[j].lastActiveAt /\ r[i].key # r[j].key
       /\ \A s \in pool :
            (\A i \in 1..Len(r) : r[i].key # sessions[s].key) /\ Len(r) > 0
                => sessions[s].lastActiveAt <= r[Len(r)].lastActiveAt

\* C17 (as claimed): list returns exactly the Sessions active within the
\* last activeMinutes minutes whenever activeMinutes is given (all Sessions
\* when it is not), in descending order of last activity, cut to the first
\* `limit` entries whenever limit is given, each entry exposing only key,
\* createdAt, lastActiveAt and messageCount.
C17_ListAsClaimed == listed # NotListed => ListMeets(TRUE, listed)

\* C17 (amended): the same, with an activeMinutes of 0 filtering nothing and
\* a limit of 0 cutting nothing, as when the field is not given; and a step
\* in which list returns changes no Session and no registry entry.
C17_ListIgnoresZero ==
    /\ [](listed # NotListed => ListMeets(FALSE, listed))
    /\ [][listed' # NotListed => UNCHANGED <<registry, sessions, agents>>]_vars

\* of two registered Sessions, a list with activeMinutes 5 returned the one
\* active within the last five minutes
C17_Witness ==
    /\ Cardinality(Registry) = 2
    /\ listed.activeMinutes = Given(5)
    /\ listed.limit = NotGiven
    /\ Len(listed.sessions) = 1

----------------------------------------------------------------------------
(* Properties of the gateway's admission control under GateSpec and        *)
(* AuthSpec                                                                *)

\* the timestamps of ts that are less than 60 s old at instant n
Within60s(ts, n) == SelectSeq(ts, LAMBDA t : t > n - 60000)

\* C14: a frame within the size cap is rejected with rate_limited exactly
\* when, after its own timestamp is recorded and the recorded timestamps
\* that are 60 s old or older are dropped, more than 20 remain; the
\* timestamps that remain stay recorded either way.  So a connection whose
\* latest frame was admitted holds at most 20 timestamps, and a frame that
\* arrives when every recorded timestamp is 60 s old or older is admitted
\* and starts the count again at 1.
C14_RateLimitedIffOver20 ==
    /\ [](\A i \in 1..Len(clients) :
            /\ clients[i].verdict = "admitted" =>
                    Len(clients[i].messageTimestamps) \in 1..20
            /\ clients[i].verdict = "rate_limited" =>
                    Len(clients[i].messageTimestamps) > 20)
    /\ [][\A i \in 1..Len(clients), size \in FrameSizes, frame \in Frames :
            size <= 65536 /\ WsMessage(i, size, frame) =>
                LET old == clients[i].messageTimestamps
                    kept == Within60s(Append(old, now), now)
                IN /\ clients'[i].messageTimestamps = kept
                   /\ clients'[i].verdict = (IF Len(kept) > 20 THEN "rate_limited"
                                             ELSE "admitted")
                   /\ Within60s(old, now) = << >> =>
                        /\ clients'[i].verdict = "admitted"
                        /\ Len(clients'[i].messageTimestamps) = 1]_vars

\* the 21st frame of a burst that began 59.999 s earlier was rejected
C14_Witness ==
    \E i \in 1..Len(clients) :
        LET ts == clients[i].messageTimestamps IN
        /\ clients[i].verdict = "rate_limited"
        /\ Len(ts) = 21
        /\ ts[1] = 0 /\ ts[21] = 59999

\* the token that counts: the query parameter if it is not empty, else the
\* header
Presented(c) == IF c.query # "" THEN c.query ELSE c.header

\* C18: with a gateway token configured, a connection that presents another
\* token (or none) is closed with code 4401 and never gets a message
\* handler, so no frame of it is processed and it records and answers
\* nothing; with no token configured every connection is accepted.
C18_WrongTokenNeverHeard ==
    \A i \in 1..Len(clients) :
        LET c == clients[i] IN
        /\ gatewayToken # "" /\ Presented(c) # gatewayToken =>
            /\ c.closeCode = 4401
            /\ ~c.listening
            /\ c.verdict = "" /\ c.messageTimestamps = << >>
        /\ gatewayToken = "" => c.closeCode = 0 /\ c.listening

\* a connection with an empty query parameter and a wrong token in the
\* header was refused
C18_Witness ==
    /\ gatewayToken = "s"
    /\ \E i \in 1..Len(clients) :
         /\ clients[i].query = "" /\ clients[i].header = "w"
         /\ clients[i].closeCode = 4401

----------------------------------------------------------------------------
(* Properties of chat.abort under Spec *)

\* the events that this step emits
StepEvents == {i \in (Len(sent) + 1)..Len(sent') : IsEvent(sent'[i])}

\* C21: chat.abort on a registered session emits exactly one event, an
\* aborted event with the session's key and the id of the run that was
\* current, if currentRunId was non-null, and no event otherwise; either way
\* currentRunId is null afterwards, the display log is unchanged and the
\* request succeeds.  chat.abort on an unknown session is answered with a
\* failed response and creates no session.
C21_AbortEmitsOnce ==
    [][\A key \in Keys : ChatAbort(key) =>
         IF registry[key] = 0
         THEN OnlyFails
         ELSE LET s == registry[key]
                  run == sessions[s].currentRunId
              IN /\ sessions'[s].currentRunId = 0
                 /\ sessions'[s].history = sessions[s].history
                 /\ registry' = registry /\ Len(sessions') = Len(sessions)
                 /\ sent'[Len(sent')] = Res(nextId, TRUE, "", 0)
                 /\ IF run # 0
                    THEN /\ Cardinality(StepEvents) = 1
                         /\ \A i \in StepEvents :
                              /\ sent'[i].state = "aborted"
                              /\ sent'[i].runId = run
                              /\ sent'[i].sessionKey = key
                    ELSE StepEvents = {}]_vars

\* a run that had received a part was aborted by chat.abort: its aborted
\* event was emitted and its stream call is still suspended
C21_Witness ==
    \E c \in Runs :
        /\ Emitted(c, {"aborted"}) /\ Streaming(c) /\ calls[c].parts > 0
        /\ sessions[calls[c].session].currentRunId = 0

----------------------------------------------------------------------------
(* Properties of a backend failure under Spec *)

\* C22: when the backend fails during a run whose stream call was not
\* cancelled, the Agent's history is again what it was before the call (the
\* user turn removed, no assistant turn added), the error is reported exactly
\* once, as one error event with the error stream_error, and the Session's
\* display log is left as it was: it still holds the run's user message and
\* gains no assistant message.
C22_FailureRollsBackEngineOnly ==
    [][\A c \in Runs : Returns(c, "error") =>
         LET a == calls[c].agent
             s == calls[c].session
             log == sessions'[s].history
         IN /\ agents'[a].history = calls[c].h0
            /\ TurnsOf(agents'[a].history, c) = {}
            /\ Cardinality(NewEvents(c)) = 1
            /\ Cardinality(StepEvents) = 1
            /\ \A i \in NewEvents(c) :
                 sent'[i].state = "error" /\ sent'[i].error = "stream_error"
            /\ log = sessions[s].history
            /\ \E i \in 1..Len(log) : log[i] = Msg("user", calls[c].content)
            /\ \A i \in 1..Len(log) :
                 log[i].role = "assistant" =>
                    \E d \in Runs : d # c /\ calls'[d].pc = "done"]_vars

\* a run failed after the backend had yielded text: its error event carries
\* the text, the display log holds only the user message, and the Agent's
\* history is empty again
C22_Witness ==
    \E c \in Runs :
        /\ calls[c].pc = "error"
        /\ \E i \in 1..Len(sent) :
             /\ IsEvent(sent[i]) /\ sent[i].runId = c
             /\ sent[i].error = "stream_error" /\ sent[i].text # << >>
        /\ sessions[calls[c].session].history = << Msg("user", calls[c].content) >>
        /\ agents[calls[c].agent].history = << >>

----------------------------------------------------------------------------
(* Properties of the order of responses and events under Spec *)

\* the success response to the chat.send that started run r precedes frame i
AcknowledgedBefore(r, i) ==
    \E j \in 1..(i - 1) : sent[j].type = "res" /\ sent[j].ok /\ sent[j].runId = r

\* C23 (as claimed): every delta, final or error event carrying a run's id
\* comes after the success response to the chat.send that started the run.
C23_ResponseBeforeEvents ==
    \A i \in 1..Len(sent) :
        IsEvent(sent[i]) /\ sent[i].state \in {"delta", "final", "error"} =>
            AcknowledgedBefore(sent[i].runId, i)

----------------------------------------------------------------------------
(* Properties of the ownership of Sessions under Spec *)

\* the runs in flight whose Session has the given key
InFlight(key) ==
    {c \in Runs : Streaming(c) /\ sessions[calls[c].session].key = key}

\* C24 (as claimed): for each session key at most one run is in flight, and
\* the Session a run in flight uses is the one registered under its key: no
\* run keeps using a Session that was deleted.
C24_OneRunPerKeyOwnedByRegistry ==
    \A key \in Keys :
        /\ Cardinality(InFlight(key)) <= 1
        /\ \A c \in InFlight(key) : registry[key] = calls[c].session

----------------------------------------------------------------------------
(* Properties of the events of one run under StreamSpec *)

\* text a is the beginning of text b
IsPrefix(a, b) == Len(a) <= Len(b) /\ SubSeq(b, 1, Len(a)) = a

\* the positions in `sent` of the events of run r in one of the given states
EventsOf(r, states) ==
    {i \in 1..Len(sent) :
        IsEvent(sent[i]) /\ sent[i].runId = r /\ sent[i].state \in states}

\* C25: the delta events of a run come in the order of its parts: a delta
\* emitted when a part arrives carries the concatenation of all parts the
\* run has received so far, so each delta's text extends the text of the
\* run's previous delta; and the final event's text is the concatenation of
\* all parts of the run, and so extends the text of every delta.
C25_DeltasAccumulate ==
    /\ [](\A r \in Runs :
            /\ \A i, j \in EventsOf(r, {"delta"}) :
                 i < j => /\ IsPrefix(sent[i].text, sent[j].text)
                          /\ Len(sent[i].text) < Len(sent[j].text)
            /\ \A i \in EventsOf(r, {"delta"}), j \in EventsOf(r, {"final"}) :
                 i < j /\ IsPrefix(sent[i].text, sent[j].text))
    /\ [][\A r \in Runs : \A i \in NewEvents(r) :
            /\ sent'[i].state = "delta" => sent'[i].text = calls'[r].assistantText
            /\ sent'[i].state = "final" => sent'[i].text = calls[r].assistantText]_vars

\* a run received the parts "x" and "y": its deltas carry "x" and "xy" and
\* its final event "xy"
C25_Witness ==
    \E r \in Runs : \E i, j \in EventsOf(r, {"delta"}), k \in EventsOf(r, {"final"}) :
        /\ sent[i].text = <<"x">>
        /\ sent[j].text = <<"x", "y">>
        /\ sent[k].text = <<"x", "y">>

----------------------------------------------------------------------------
(* Properties of rejected frames under GateSpec *)

\* the handler stops before JSON.parse: the frame is not decoded, the
\* connection's Agent and its stream calls are not touched, no callback is
\* invoked, and the connection stays open with its handler
StopsBeforeDecoding(i) ==
    /\ clients'[i].handled = ""
    /\ UNCHANGED <<agents, calls, cbLog>>
    /\ clients'[i].closeCode = 0 /\ clients'[i].listening

\* C26: a frame larger than 65536 bytes is rejected with message_too_large
\* and the recorded timestamps stay as they were, so it does not count toward
\* the rate limit; a frame rejected with rate_limited leaves its own
\* timestamp recorded as the latest one, behind timestamps recorded before
\* it, so it counts toward later decisions; either way the frame is not
\* decoded, does not reach the Agent, and the connection stays open.
C26_RejectedFramesStopEarly ==
    [][\A i \in 1..Len(clients), size \in FrameSizes, frame \in Frames :
         WsMessage(i, size, frame) =>
            LET old == clients[i].messageTimestamps
                new == clients'[i].messageTimestamps
            IN /\ size > 65536 =>
                    /\ clients'[i].verdict = "message_too_large"
                    /\ new = old
                    /\ StopsBeforeDecoding(i)
               /\ clients'[i].verdict = "rate_limited" =>
                    /\ size <= 65536
                    /\ Len(new) > 20
                    /\ new[Len(new)] = now
                    /\ \E k \in 0..Len(old) :
                         new = SubSeq(old, k + 1, Len(old)) \o <<now>>
                    /\ StopsBeforeDecoding(i)
               /\ clients'[i].handled # "" =>
                    size <= 65536 /\ Len(new) \in 1..20]_vars

\* after a message frame had reached the Agent, the 21st frame of a burst was
\* rejected and its timestamp counted against the 22nd
C26_Witness ==
    \E i \in 1..Len(clients) :
        /\ clients[i].verdict = "rate_limited"
        /\ Len(clients[i].messageTimestamps) = 22
        /\ agents[clients[i].agent].busy

----------------------------------------------------------------------------
(* Properties of the heartbeat under BeatSpec *)

\* connection i was accepted and its socket is open
Monitored(i) == clients[i].member /\ clients[i].closeCode = 0

\* connection i was pinged at the previous tick (it had arrived before it)
\* and no pong of it has arrived since
Unanswered(i) == clients[i].since < now /\ clients[i].lastPong < now

\* the later of two instants
Later(t, u) == IF t >= u THEN t ELSE u

----------------------------------------------------------------------------
(* Properties of the registry under ManagerSpec *)

\* the registered keys
RegisteredKeys == {k \in Keys : registry[k] # 0}

\* the step registers key under a Session object that did not exist before,
\* with an empty log, a null currentRunId and an Agent of its own that did
\* not exist before, and changes nothing else of the registry
Creates(key) ==
    /\ registry[key] = 0
    /\ registry' = [registry EXCEPT ![key] = Len(sessions) + 1]
    /\ Len(sessions') = Len(sessions) + 1
    /\ SubSeq(sessions', 1, Len(sessions)) = sessions
    /\ LET new == sessions'[Len(sessions')] IN
       /\ new.key = key /\ new.history = << >> /\ new.currentRunId = 0
       /\ new.agent = Len(agents) + 1
    /\ agents' = Append(agents, NewAgent)

\* the step removes exactly the registered key from the registry
Removes(key) ==
    /\ registry[key] # 0
    /\ registry' = [registry EXCEPT ![key] = 0]

\* the step changes no registry entry, no Session and no Agent
Untouched == UNCHANGED <<registry, sessions, agents>>

\* C28: the registry changes only by a getOrCreate of an absent key, which
\* registers exactly that key with a new Session (empty log, null
\* currentRunId, a new Agent), by a delete of a registered key, which removes
\* exactly that key, or by clear, which removes every key.  getOrCreate
\* returns the Session registered under the key, the existing one unchanged
\* if there was one; delete returns true exactly when the key was
\* registered; get returns the registered Session or null; and get, list
\* and chat.history change nothing, chat.history answering an unknown key
\* with an empty list.
C28_RegistryChangesOnlyAsStated ==
    [][/\ registry' # registry =>
            \/ \E key \in Keys : Creates(key)
            \/ \E key \in Keys : Removes(key) /\ UNCHANGED <<sessions, agents>>
            \/ RegisteredKeys' = {} /\ UNCHANGED <<sessions, agents>> /\ MClear
       /\ \A key \in Keys :
            /\ MGetOrCreate(key) =>
                /\ IF registry[key] = 0 THEN Creates(key) ELSE Untouched
                /\ returned'.session = registry'[key] /\ registry'[key] # 0
            /\ ManagerDelete(key) =>
                /\ IF registry[key] # 0 THEN Removes(key) ELSE UNCHANGED registry
                /\ returned'.existed <=> registry[key] # 0
                /\ UNCHANGED <<sessions, agents>>
            /\ MGet(key) => Untouched /\ returned'.session = registry[key]
            /\ ChatHistory(key, 0) =>
                /\ Untouched
                /\ registry[key] = 0 => sent'[Len(sent')].messages = << >>
       /\ MClear => RegisteredKeys' = {} /\ UNCHANGED <<sessions, agents>>
       /\ MList(NotGiven, NotGiven) => Untouched]_vars

\* a key was deleted and created again, so that it is registered under a
\* second Session object, and a delete of the other key, which was never
\* registered, has returned false
C28_Witness ==
    /\ registry["k"] = 2
    /\ registry["main"] = 0
    /\ returned = Returned("delete", "main", 0, FALSE)
    /\ \A s \in 1..Len(sessions) : sessions[s].key = "k"

----------------------------------------------------------------------------
(* Properties of the display log under LogSpec *)

\* C29: a Session's display log never holds more than 200 messages; a
\* pushMessage leaves the new message last, and the messages before it are
\* the old log without its oldest message if the old log held 200, and the
\* whole old log otherwise, in the same order and unmodified.
C29_LogCappedOldestFirst ==
    /\ [](\A s \in 1..Len(sessions) : Len(sessions[s].history) <= 200)
    /\ [][\A role \in Roles, text \in Texts : SPush(role, text) =>
            LET old == sessions[1].history
                new == sessions'[1].history
                dropped == IF Len(old) = 200 THEN 1 ELSE 0
            IN /\ Len(new) = Len(old) + 1 - dropped
               /\ new[Len(new)] = Msg(role, text)
               /\ \A i \in 1..(Len(new) - 1) : new[i] = old[i + dropped]]_vars

\* a log that held 200 messages has had two pushed: it holds 200, beginning
\* with what was its third message and ending with the two new ones
C29_Witness ==
    LET log == sessions[1].history IN
    /\ Len(sessions) = 1 /\ Len(log) = 200
    /\ log[1] = Msg("user", <<"0", "0", "3">>)
    /\ log[199] = Msg("user", <<"q">>)
    /\ log[200] = Msg("assistant", <<"x">>)

----------------------------------------------------------------------------
(* Properties of the terminal events of a run under Spec *)

\* the states of the events that end a run
Terminal == {"final", "error", "aborted"}

\* C30: at most one final, error or aborted event is ever emitted with one
\* runId, and every delta event with that runId precedes it.
C30_OneTerminalEventLast ==
    \A r \in Runs :
        /\ Cardinality(EventsOf(r, Terminal)) <= 1
        /\ \A i \in EventsOf(r, Terminal), j \in EventsOf(r, {"delta"}) : j < i

\* a run that had emitted a delta was aborted by chat.abort, and its stream
\* call then returned when the backend failed
C30_Witness ==
    \E c \in Runs :
        /\ EventsOf(c, {"delta"}) # {}
        /\ EventsOf(c, {"aborted"}) # {}
        /\ calls[c].pc = "aborted"
        /\ agents[calls[c].agent].history = << >>

====
